---- MODULE Spec2Model ----
(***************************************************************************)
(* The buffer dispatch layer of halloy (src/buffer.rs): the Buffer union,  *)
(* its Message and Event unions, and the operations that route to the      *)
(* active variant.  The variants themselves (channel, server, query,       *)
(* file_transfers, logs) are external to buffer.rs; every call into one of *)
(* them takes an extra argument o, the outcome the variant produces, which *)
(* the actions choose nondeterministically.                                *)
(***************************************************************************)
EXTENDS Integers, Sequences, FiniteSets, TLC

VARIABLES buffer, clients, history, file_transfers, config, pending, ret, other

vars == <<buffer, clients, history, file_transfers, config, pending, ret, other>>

(***************************************************************************)
(* Bounds of the model.                                                    *)
(***************************************************************************)
\* at most MaxPending messages are in flight between the executor and update
MaxPending == 1

Servers == {"irc.example.org", "irc.libera.chat"}
Channels == {"#general", "#halloy"}
Nicks == {"alice", "bob"}

\* the states of a sub-component (scroll_view, input_view, ...): as constructed,
\* or changed since
ViewStates == {"initial", "changed"}
ClientMaps == {"clients0", "clients1"}
HistoryManagers == {"history0", "history1"}
FileTransferManagers == {"transfers0", "transfers1"}
Configs == {"config0"}

(***************************************************************************)
(* Option<T> and Task<T>.  An Option is the empty sequence (None) or a     *)
(* one-element sequence (Some); a Task is the sequence of the messages it  *)
(* will produce, Task::none() being the empty one.  x.map(f) is written    *)
(* [i \in DOMAIN x |-> f(x[i])]: f applied to every element.               *)
(***************************************************************************)
None == <<>>
Some(x) == <<x>>

TaskNone == <<>>

(***************************************************************************)
(* data::Buffer, the external descriptor.                                  *)
(***************************************************************************)
DataServer(server) == [kind |-> "Server", server |-> server]
DataChannel(server, channel) == [kind |-> "Channel", server |-> server, channel |-> channel]
DataQuery(server, nick) == [kind |-> "Query", server |-> server, nick |-> nick]

Descriptors ==
    {DataServer(s) : s \in Servers}
    \cup {DataChannel(s, c) : s \in Servers, c \in Channels}
    \cup {DataQuery(s, u) : s \in Servers, u \in Nicks}

(***************************************************************************)
(* enum Message: the outer tag around a variant-local message.             *)
(***************************************************************************)
MessageChannel(m) == [tag |-> "Channel", message |-> m]
MessageServer(m) == [tag |-> "Server", message |-> m]
MessageQuery(m) == [tag |-> "Query", message |-> m]
MessageFileTransfers(m) == [tag |-> "FileTransfers", message |-> m]
MessageLog(m) == [tag |-> "Log", message |-> m]

\* variant-local messages: the two sub-component wrappers buffer.rs builds
InnerMessages == {"inner"}
InputView(m) == [variant |-> "InputView", message |-> m]
ScrollView(m) == [variant |-> "ScrollView", message |-> m]
LocalMessages == {InputView(m) : m \in InnerMessages} \cup {ScrollView(m) : m \in InnerMessages}

Tags == {"Channel", "Server", "Query", "FileTransfers", "Log"}
Messages == [tag : Tags, message : LocalMessages]

(***************************************************************************)
(* enum Event, and the variant-local event enums it mirrors.               *)
(***************************************************************************)
EventUserContext(e) == [enum |-> "Event", variant |-> "UserContext", payload |-> e]
EventOpenChannel(c) == [enum |-> "Event", variant |-> "OpenChannel", payload |-> c]
EventHistory(t) == [enum |-> "Event", variant |-> "History", payload |-> t]

UserContextEvents == {"SendWhois"}
HistoryTasks == {"history_task"}

LocalEvent(enum, variant, payload) == [enum |-> enum, variant |-> variant, payload |-> payload]
LocalEvents(enum) ==
    {LocalEvent(enum, "UserContext", e) : e \in UserContextEvents}
    \cup {LocalEvent(enum, "OpenChannel", c) : c \in Channels}
    \cup {LocalEvent(enum, "History", t) : t \in HistoryTasks}

(***************************************************************************)
(* The variants' constructors.                                             *)
(***************************************************************************)
ChannelNew(server, channel) ==
    [kind |-> "Channel", buffer |-> DataChannel(server, channel), server |-> server,
     channel |-> channel, scroll_view |-> "initial", input_view |-> "initial"]
ServerNew(server) ==
    [kind |-> "Server", buffer |-> DataServer(server), server |-> server,
     scroll_view |-> "initial", input_view |-> "initial"]
QueryNew(server, nick) ==
    [kind |-> "Query", buffer |-> DataQuery(server, nick), server |-> server,
     nick |-> nick, scroll_view |-> "initial", input_view |-> "initial"]
FileTransfersNew == [kind |-> "FileTransfers", scrollable |-> "initial"]
LogsNew == [kind |-> "Logs", scroll_view |-> "initial"]

(***************************************************************************)
(* enum Buffer and its constructors.                                       *)
(***************************************************************************)
BufferEmpty == [kind |-> "Empty"]

empty == BufferEmpty

\* a conversion that builds a Channel for a query descriptor
From_QueryAsChannel(d) ==
    CASE d.kind = "Server" -> ServerNew(d.server)
      [] d.kind = "Channel" -> ChannelNew(d.server, d.channel)
      [] d.kind = "Query" -> ChannelNew(d.server, d.nick)

From(d) ==
    CASE d.kind = "Server" -> ServerNew(d.server)
      [] d.kind = "Channel" -> ChannelNew(d.server, d.channel)
      [] d.kind = "Query" -> QueryNew(d.server, d.nick)

\* a data() that gives the Empty buffer a descriptor
data_EmptySome(self) ==
    CASE self.kind = "Empty" -> Some(DataServer("irc.example.org"))
      [] self.kind = "Channel" -> Some(self.buffer)
      [] self.kind = "Server" -> Some(self.buffer)
      [] self.kind = "Query" -> Some(self.buffer)
      [] self.kind = "FileTransfers" -> None
      [] self.kind = "Logs" -> None

\* a data() that forgets the Server variant
data_ServerNone(self) ==
    CASE self.kind = "Empty" -> None
      [] self.kind = "Channel" -> Some(self.buffer)
      [] self.kind = "Server" -> None
      [] self.kind = "Query" -> Some(self.buffer)
      [] self.kind = "FileTransfers" -> None
      [] self.kind = "Logs" -> None

data(self) ==
    CASE self.kind = "Empty" -> None
      [] self.kind = "Channel" -> Some(self.buffer)
      [] self.kind = "Server" -> Some(self.buffer)
      [] self.kind = "Query" -> Some(self.buffer)
      [] self.kind = "FileTransfers" -> None
      [] self.kind = "Logs" -> None

(***************************************************************************)
(* The variants' own operations.  They are outside buffer.rs: each takes   *)
(* the outcome o it produces (new sub-state, new collaborator state, the   *)
(* variant-local task and event) and returns it in the shape of the Rust   *)
(* signature.  The sets *Outcomes are the outcomes the actions range over. *)
(***************************************************************************)
Tasks == {TaskNone} \cup {<<m>> : m \in LocalMessages}
InnerTasks == {TaskNone} \cup {<<m>> : m \in InnerMessages}
OptionalEvents(enum) == {None} \cup {Some(e) : e \in LocalEvents(enum)}

UpdateOutcomes(enum) ==
    [scroll_view : ViewStates, input_view : ViewStates, clients : ClientMaps,
     history : HistoryManagers, command : Tasks, event : OptionalEvents(enum)]

\* channel::Channel::update(&mut self, message, clients, history, config)
channel_update(state, message, cl, hi, cfg, o) ==
    [state |-> [state EXCEPT !.scroll_view = o.scroll_view, !.input_view = o.input_view],
     clients |-> o.clients, history |-> o.history, command |-> o.command, event |-> o.event]

\* server::Server::update(&mut self, message, clients, history, config)
server_update(state, message, cl, hi, cfg, o) ==
    [state |-> [state EXCEPT !.scroll_view = o.scroll_view, !.input_view = o.input_view],
     clients |-> o.clients, history |-> o.history, command |-> o.command, event |-> o.event]

\* query::Query::update(&mut self, message, clients, history, config)
query_update(state, message, cl, hi, cfg, o) ==
    [state |-> [state EXCEPT !.scroll_view = o.scroll_view, !.input_view = o.input_view],
     clients |-> o.clients, history |-> o.history, command |-> o.command, event |-> o.event]

FileTransfersOutcomes ==
    [scrollable : ViewStates, file_transfers : FileTransferManagers, command : Tasks]

\* file_transfers::FileTransfers::update(&mut self, message, file_transfers, config)
file_transfers_update(state, message, ft, cfg, o) ==
    [state |-> [state EXCEPT !.scrollable = o.scrollable],
     file_transfers |-> o.file_transfers, command |-> o.command]

\* Channel::focus(&self), Server::focus(&self), Query::focus(&self)
channel_focus(state, o) == o
server_focus(state, o) == o
query_focus(state, o) == o

\* Channel::reset(&mut self), Server::reset(&mut self), Query::reset(&mut self)
channel_reset(state) == [state EXCEPT !.input_view = "initial"]
server_reset(state) == [state EXCEPT !.input_view = "initial"]
query_reset(state) == [state EXCEPT !.input_view = "initial"]

InsertOutcomes == [input_view : ViewStates, history : HistoryManagers, command : InnerTasks]

\* input_view::State::insert_user(&mut self, nick, buffer, history)
input_view_insert_user(input_view, nick, buf, hi, o) ==
    [input_view |-> o.input_view, history |-> o.history, command |-> o.command]

ScrollOutcomes == [scroll_view : ViewStates, command : InnerTasks]

\* scroll_view::State::scroll_to_start(&mut self), scroll_to_end(&mut self)
scroll_view_scroll_to_start(scroll_view, o) ==
    [scroll_view |-> o.scroll_view, command |-> o.command]
scroll_view_scroll_to_end(scroll_view, o) ==
    [scroll_view |-> o.scroll_view, command |-> o.command]

(***************************************************************************)
(* A delegation: the callee, the arguments it was handed and what it       *)
(* returned.                                                               *)
(***************************************************************************)
Call(fn, args, returned) == [fn |-> fn, args |-> args, returned |-> returned]

\* the result of an operation of Buffer: the buffer and the collaborators
\* after the call, what it returned, and the delegations it made
Result(self, cl, hi, ft, task, event, calls) ==
    [self |-> self, clients |-> cl, history |-> hi, file_transfers |-> ft,
     task |-> task, event |-> event, calls |-> calls]

(***************************************************************************)
(* Buffer::update: the translation of each variant's event, the four       *)
(* matching arms and the catch-all arm.                                    *)
(***************************************************************************)
ChannelEvent(event) ==
    CASE event.variant = "UserContext" -> EventUserContext(event.payload)
      [] event.variant = "OpenChannel" -> EventOpenChannel(event.payload)
      [] event.variant = "History" -> EventHistory(event.payload)

\* a translation with two arms crossed
ServerEvent_Crossed(event) ==
    CASE event.variant = "UserContext" -> EventUserContext(event.payload)
      [] event.variant = "OpenChannel" -> EventHistory(event.payload)
      [] event.variant = "History" -> EventOpenChannel(event.payload)

ServerEvent(event) ==
    CASE event.variant = "UserContext" -> EventUserContext(event.payload)
      [] event.variant = "OpenChannel" -> EventOpenChannel(event.payload)
      [] event.variant = "History" -> EventHistory(event.payload)

QueryEvent(event) ==
    CASE event.variant = "UserContext" -> EventUserContext(event.payload)
      [] event.variant = "OpenChannel" -> EventOpenChannel(event.payload)
      [] event.variant = "History" -> EventHistory(event.payload)

update_Channel(state, message, cl, hi, ft, cfg, o) ==
    LET r == channel_update(state, message, cl, hi, cfg, o)
        event == [i \in DOMAIN r.event |-> ChannelEvent(r.event[i])]
        command == [i \in DOMAIN r.command |-> MessageChannel(r.command[i])]
    IN Result(r.state, r.clients, r.history, ft, command, event,
              <<Call("channel::update", <<message>>, <<r.command, r.event>>)>>)

\* a Server arm that also hands the file-transfer manager to the variant
update_Server_TouchesTransfers(state, message, cl, hi, ft, cfg, o) ==
    LET r == server_update(state, message, cl, hi, cfg, o)
        event == [i \in DOMAIN r.event |-> ServerEvent(r.event[i])]
        command == [i \in DOMAIN r.command |-> MessageServer(r.command[i])]
    IN Result(r.state, r.clients, r.history, "transfers1", command, event,
              <<Call("server::update", <<message>>, <<r.command, r.event>>)>>)

update_Server(state, message, cl, hi, ft, cfg, o) ==
    LET r == server_update(state, message, cl, hi, cfg, o)
        event == [i \in DOMAIN r.event |-> ServerEvent(r.event[i])]
        command == [i \in DOMAIN r.command |-> MessageServer(r.command[i])]
    IN Result(r.state, r.clients, r.history, ft, command, event,
              <<Call("server::update", <<message>>, <<r.command, r.event>>)>>)

update_Query(state, message, cl, hi, ft, cfg, o) ==
    LET r == query_update(state, message, cl, hi, cfg, o)
        event == [i \in DOMAIN r.event |-> QueryEvent(r.event[i])]
        command == [i \in DOMAIN r.command |-> MessageQuery(r.command[i])]
    IN Result(r.state, r.clients, r.history, ft, command, event,
              <<Call("query::update", <<message>>, <<r.command, r.event>>)>>)

\* a FileTransfers arm that reports an event
update_FileTransfers_WithEvent(state, message, cl, hi, ft, cfg, o) ==
    LET r == file_transfers_update(state, message, ft, cfg, o)
        command == [i \in DOMAIN r.command |-> MessageFileTransfers(r.command[i])]
    IN Result(r.state, cl, hi, r.file_transfers, command,
              Some(EventUserContext("SendWhois")),
              <<Call("file_transfers::update", <<message>>, <<r.command>>)>>)

update_FileTransfers(state, message, cl, hi, ft, cfg, o) ==
    LET r == file_transfers_update(state, message, ft, cfg, o)
        command == [i \in DOMAIN r.command |-> MessageFileTransfers(r.command[i])]
    IN Result(r.state, cl, hi, r.file_transfers, command,
              None, <<Call("file_transfers::update", <<message>>, <<r.command>>)>>)

\* what a call that panics leaves in place of the task it should return
Panicked == <<[tag |-> "panic", message |-> [variant |-> "panic", message |-> "panic"]]>>

\* a catch-all arm that is unreachable!() instead of a no-op
update_CatchAll_Unreachable(self, message, cl, hi, ft, cfg, o) ==
    Result(self, cl, hi, ft, Panicked, None, <<>>)

\* a catch-all arm that hands the unmatched message back for redelivery
update_CatchAll_Redelivers(self, message, cl, hi, ft, cfg, o) ==
    Result(self, cl, hi, ft, <<message>>, None, <<>>)

update_CatchAll(self, message, cl, hi, ft, cfg, o) ==
    Result(self, cl, hi, ft, TaskNone, None, <<>>)

update(self, message, cl, hi, ft, cfg, o) ==
    CASE self.kind = "Channel" /\ message.tag = "Channel" ->
            update_Channel(self, message.message, cl, hi, ft, cfg, o)
      [] self.kind = "Server" /\ message.tag = "Server" ->
            update_Server(self, message.message, cl, hi, ft, cfg, o)
      [] self.kind = "Query" /\ message.tag = "Query" ->
            update_Query(self, message.message, cl, hi, ft, cfg, o)
      [] self.kind = "FileTransfers" /\ message.tag = "FileTransfers" ->
            update_FileTransfers(self, message.message, cl, hi, ft, cfg, o)
      [] OTHER -> update_CatchAll(self, message, cl, hi, ft, cfg, o)

\* the outcomes the variant reached by update(self, message, ..) can produce
NoOutcome == [none |-> TRUE]
OutcomesOfUpdate(self, message) ==
    CASE self.kind = "Channel" /\ message.tag = "Channel" -> UpdateOutcomes("channel::Event")
      [] self.kind = "Server" /\ message.tag = "Server" -> UpdateOutcomes("server::Event")
      [] self.kind = "Query" /\ message.tag = "Query" -> UpdateOutcomes("query::Event")
      [] self.kind = "FileTransfers" /\ message.tag = "FileTransfers" -> FileTransfersOutcomes
      [] OTHER -> {NoOutcome}

(***************************************************************************)
(* Buffer::view.  An element is the view function that rendered it, the    *)
(* arguments that function was handed, and the messages its widgets can    *)
(* publish; Element::map(f) applies f to every one of them.                *)
(***************************************************************************)
Element(fn, args, messages) == [fn |-> fn, args |-> args, messages |-> messages]

\* the widgets of a rendered element publish any of the local messages, or none
ViewOutcomes == {{}, LocalMessages}

empty_view(cfg, sidebar) == Element("empty::view", <<cfg, sidebar>>, {})
channel_view(state, cl, hi, settings, cfg, theme, is_focused, o) ==
    Element("channel::view", <<state, cl, hi, settings, cfg, theme, is_focused>>, o)
server_view(state, cl, hi, cfg, theme, is_focused, o) ==
    Element("server::view", <<state, cl, hi, cfg, theme, is_focused>>, o)
query_view(state, cl, hi, cfg, theme, is_focused, o) ==
    Element("query::view", <<state, cl, hi, cfg, theme, is_focused>>, o)
file_transfers_view(state, ft, o) ==
    Element("file_transfers::view", <<state, ft>>, o)
logs_view(state, hi, cfg, theme, o) ==
    Element("logs::view", <<state, hi, cfg, theme>>, o)

\* the whole settings handed to channel::view
SettingsChannel_Whole(settings) == <<settings, "self">>
SettingsChannel(settings) == <<settings, "channel">>

view(self, cl, ft, hi, settings, cfg, theme, is_focused, sidebar, o) ==
    CASE self.kind = "Empty" -> empty_view(cfg, sidebar)
      [] self.kind = "Channel" ->
            [channel_view(self, cl, hi, SettingsChannel(settings), cfg, theme, is_focused, o)
                EXCEPT !.messages = {MessageChannel(m) : m \in @}]
      [] self.kind = "Server" ->
            [server_view(self, cl, hi, cfg, theme, is_focused, o)
                EXCEPT !.messages = {MessageServer(m) : m \in @}]
      [] self.kind = "Query" ->
            [query_view(self, cl, hi, cfg, theme, is_focused, o)
                EXCEPT !.messages = {MessageQuery(m) : m \in @}]
      [] self.kind = "FileTransfers" ->
            [file_transfers_view(self, ft, o)
                EXCEPT !.messages = {MessageFileTransfers(m) : m \in @}]
      [] self.kind = "Logs" ->
            [logs_view(self, hi, cfg, theme, o)
                EXCEPT !.messages = {MessageLog(m) : m \in @}]

OutcomesOfView(self) == IF self.kind = "Empty" THEN {NoOutcome} ELSE ViewOutcomes

(***************************************************************************)
(* Buffer::get_server, Buffer::get_channel.                                *)
(***************************************************************************)
get_server(self, server) ==
    IF self.kind = "Server"
    THEN (IF self.server = server THEN Some(self) ELSE None)
    ELSE None

\* a get_channel that compares the server only
get_channel_AnyChannel(self, server, channel) ==
    IF self.kind = "Channel"
    THEN (IF self.server = server THEN Some(self) ELSE None)
    ELSE None

get_channel(self, server, channel) ==
    IF self.kind = "Channel"
    THEN (IF self.server = server /\ self.channel = channel THEN Some(self) ELSE None)
    ELSE None

(***************************************************************************)
(* Buffer::focus, Buffer::reset.                                           *)
(***************************************************************************)
\* a focus() whose Server arm tags its task like the Channel arm above it
focus_ServerAsChannel(self, o) ==
    CASE self.kind \in {"Empty", "FileTransfers", "Logs"} ->
            [task |-> TaskNone, calls |-> <<>>]
      [] self.kind = "Channel" ->
            LET task == channel_focus(self, o)
            IN [task |-> [i \in DOMAIN task |-> MessageChannel(task[i])],
                calls |-> <<Call("channel::focus", <<>>, <<task>>)>>]
      [] self.kind = "Server" ->
            LET task == server_focus(self, o)
            IN [task |-> [i \in DOMAIN task |-> MessageChannel(task[i])],
                calls |-> <<Call("server::focus", <<>>, <<task>>)>>]
      [] self.kind = "Query" ->
            LET task == query_focus(self, o)
            IN [task |-> [i \in DOMAIN task |-> MessageQuery(task[i])],
                calls |-> <<Call("query::focus", <<>>, <<task>>)>>]

focus(self, o) ==
    CASE self.kind \in {"Empty", "FileTransfers", "Logs"} ->
            [task |-> TaskNone, calls |-> <<>>]
      [] self.kind = "Channel" ->
            LET task == channel_focus(self, o)
            IN [task |-> [i \in DOMAIN task |-> MessageChannel(task[i])],
                calls |-> <<Call("channel::focus", <<>>, <<task>>)>>]
      [] self.kind = "Server" ->
            LET task == server_focus(self, o)
            IN [task |-> [i \in DOMAIN task |-> MessageServer(task[i])],
                calls |-> <<Call("server::focus", <<>>, <<task>>)>>]
      [] self.kind = "Query" ->
            LET task == query_focus(self, o)
            IN [task |-> [i \in DOMAIN task |-> MessageQuery(task[i])],
                calls |-> <<Call("query::focus", <<>>, <<task>>)>>]

OutcomesOfFocus(self) ==
    IF self.kind \in {"Channel", "Server", "Query"} THEN Tasks ELSE {NoOutcome}

\* a reset() that clears the whole buffer instead of the variant's input
reset_ClearsToEmpty(self) ==
    CASE self.kind \in {"Empty", "FileTransfers", "Logs"} ->
            [self |-> self, calls |-> <<>>]
      [] self.kind = "Channel" ->
            [self |-> BufferEmpty, calls |-> <<Call("channel::reset", <<>>, <<>>)>>]
      [] self.kind = "Server" ->
            [self |-> BufferEmpty, calls |-> <<Call("server::reset", <<>>, <<>>)>>]
      [] self.kind = "Query" ->
            [self |-> BufferEmpty, calls |-> <<Call("query::reset", <<>>, <<>>)>>]

\* a reset() that lists Server among the variants without resettable input
reset_ServerSkipped(self) ==
    CASE self.kind \in {"Empty", "Server", "FileTransfers", "Logs"} ->
            [self |-> self, calls |-> <<>>]
      [] self.kind = "Channel" ->
            [self |-> channel_reset(self), calls |-> <<Call("channel::reset", <<>>, <<>>)>>]
      [] self.kind = "Query" ->
            [self |-> query_reset(self), calls |-> <<Call("query::reset", <<>>, <<>>)>>]

reset(self) ==
    CASE self.kind \in {"Empty", "FileTransfers", "Logs"} ->
            [self |-> self, calls |-> <<>>]
      [] self.kind = "Channel" ->
            [self |-> channel_reset(self), calls |-> <<Call("channel::reset", <<>>, <<>>)>>]
      [] self.kind = "Server" ->
            [self |-> server_reset(self), calls |-> <<Call("server::reset", <<>>, <<>>)>>]
      [] self.kind = "Query" ->
            [self |-> query_reset(self), calls |-> <<Call("query::reset", <<>>, <<>>)>>]

(***************************************************************************)
(* Buffer::insert_user_to_input.                                           *)
(***************************************************************************)
ChannelInputView(message) == MessageChannel(InputView(message))
\* the Query arm tagging its task like the Channel arm above it
QueryInputView_ChannelTag(message) == MessageChannel(InputView(message))
QueryInputView(message) == MessageQuery(InputView(message))

insert_user_to_input(self, nick, hi, o) ==
    LET d == data(self) IN
    IF d # None
    THEN LET buf == d[1] IN
         CASE self.kind \in {"Empty", "Server", "FileTransfers", "Logs"} ->
                 [self |-> self, history |-> hi, task |-> TaskNone, calls |-> <<>>]
           [] self.kind = "Channel" ->
                 LET r == input_view_insert_user(self.input_view, nick, buf, hi, o)
                 IN [self |-> [self EXCEPT !.input_view = r.input_view],
                     history |-> r.history,
                     task |-> [i \in DOMAIN r.command |-> ChannelInputView(r.command[i])],
                     calls |-> <<Call("channel.input_view.insert_user", <<nick, buf, hi>>,
                                      <<r.command>>)>>]
           [] self.kind = "Query" ->
                 LET r == input_view_insert_user(self.input_view, nick, buf, hi, o)
                 IN [self |-> [self EXCEPT !.input_view = r.input_view],
                     history |-> r.history,
                     task |-> [i \in DOMAIN r.command |-> QueryInputView(r.command[i])],
                     calls |-> <<Call("query.input_view.insert_user", <<nick, buf, hi>>,
                                      <<r.command>>)>>]
    ELSE [self |-> self, history |-> hi, task |-> TaskNone, calls |-> <<>>]

OutcomesOfInsert(self) ==
    IF self.kind \in {"Channel", "Query"} THEN InsertOutcomes ELSE {NoOutcome}

(***************************************************************************)
(* Buffer::scroll_to_start, Buffer::scroll_to_end.                         *)
(***************************************************************************)
\* the Channel arm tagging its task for the Query variant
ChannelScrollView_QueryTag(message) == MessageQuery(ScrollView(message))
ChannelScrollView(message) == MessageChannel(ScrollView(message))
\* the Server arm tagging its task like the Channel arm above it
ServerScrollView_ChannelTag(message) == MessageChannel(ScrollView(message))
ServerScrollView(message) == MessageServer(ScrollView(message))
QueryScrollView(message) == MessageQuery(ScrollView(message))
LogScrollView(message) == MessageLog(ScrollView(message))

\* a scroll_to_start whose Channel arm also clears the input
scroll_to_start_ClearsInput(self, o) ==
    CASE self.kind \in {"Empty", "FileTransfers"} ->
            [self |-> self, task |-> TaskNone, calls |-> <<>>]
      [] self.kind = "Channel" ->
            LET r == scroll_view_scroll_to_start(self.scroll_view, o)
            IN [self |-> [self EXCEPT !.scroll_view = r.scroll_view, !.input_view = "initial"],
                task |-> [i \in DOMAIN r.command |-> ChannelScrollView(r.command[i])],
                calls |-> <<Call("channel.scroll_view.scroll_to_start", <<>>, <<r.command>>)>>]
      [] self.kind = "Server" ->
            LET r == scroll_view_scroll_to_start(self.scroll_view, o)
            IN [self |-> [self EXCEPT !.scroll_view = r.scroll_view],
                task |-> [i \in DOMAIN r.command |-> ServerScrollView(r.command[i])],
                calls |-> <<Call("server.scroll_view.scroll_to_start", <<>>, <<r.command>>)>>]
      [] self.kind = "Query" ->
            LET r == scroll_view_scroll_to_start(self.scroll_view, o)
            IN [self |-> [self EXCEPT !.scroll_view = r.scroll_view],
                task |-> [i \in DOMAIN r.command |-> QueryScrollView(r.command[i])],
                calls |-> <<Call("query.scroll_view.scroll_to_start", <<>>, <<r.command>>)>>]
      [] self.kind = "Logs" ->
            LET r == scroll_view_scroll_to_start(self.scroll_view, o)
            IN [self |-> [self EXCEPT !.scroll_view = r.scroll_view],
                task |-> [i \in DOMAIN r.command |-> LogScrollView(r.command[i])],
                calls |-> <<Call("log.scroll_view.scroll_to_start", <<>>, <<r.command>>)>>]

scroll_to_start(self, o) ==
    CASE self.kind \in {"Empty", "FileTransfers"} ->
            [self |-> self, task |-> TaskNone, calls |-> <<>>]
      [] self.kind = "Channel" ->
            LET r == scroll_view_scroll_to_start(self.scroll_view, o)
            IN [self |-> [self EXCEPT !.scroll_view = r.scroll_view],
                task |-> [i \in DOMAIN r.command |-> ChannelScrollView(r.command[i])],
                calls |-> <<Call("channel.scroll_view.scroll_to_start", <<>>, <<r.command>>)>>]
      [] self.kind = "Server" ->
            LET r == scroll_view_scroll_to_start(self.scroll_view, o)
            IN [self |-> [self EXCEPT !.scroll_view = r.scroll_view],
                task |-> [i \in DOMAIN r.command |-> ServerScrollView(r.command[i])],
                calls |-> <<Call("server.scroll_view.scroll_to_start", <<>>, <<r.command>>)>>]
      [] self.kind = "Query" ->
            LET r == scroll_view_scroll_to_start(self.scroll_view, o)
            IN [self |-> [self EXCEPT !.scroll_view = r.scroll_view],
                task |-> [i \in DOMAIN r.command |-> QueryScrollView(r.command[i])],
                calls |-> <<Call("query.scroll_view.scroll_to_start", <<>>, <<r.command>>)>>]
      [] self.kind = "Logs" ->
            LET r == scroll_view_scroll_to_start(self.scroll_view, o)
            IN [self |-> [self EXCEPT !.scroll_view = r.scroll_view],
                task |-> [i \in DOMAIN r.command |-> LogScrollView(r.command[i])],
                calls |-> <<Call("log.scroll_view.scroll_to_start", <<>>, <<r.command>>)>>]

scroll_to_end(self, o) ==
    CASE self.kind \in {"Empty", "FileTransfers"} ->
            [self |-> self, task |-> TaskNone, calls |-> <<>>]
      [] self.kind = "Channel" ->
            LET r == scroll_view_scroll_to_end(self.scroll_view, o)
            IN [self |-> [self EXCEPT !.scroll_view = r.scroll_view],
                task |-> [i \in DOMAIN r.command |-> ChannelScrollView(r.command[i])],
                calls |-> <<Call("channel.scroll_view.scroll_to_end", <<>>, <<r.command>>)>>]
      [] self.kind = "Server" ->
            LET r == scroll_view_scroll_to_end(self.scroll_view, o)
            IN [self |-> [self EXCEPT !.scroll_view = r.scroll_view],
                task |-> [i \in DOMAIN r.command |-> ServerScrollView(r.command[i])],
                calls |-> <<Call("server.scroll_view.scroll_to_end", <<>>, <<r.command>>)>>]
      [] self.kind = "Query" ->
            LET r == scroll_view_scroll_to_end(self.scroll_view, o)
            IN [self |-> [self EXCEPT !.scroll_view = r.scroll_view],
                task |-> [i \in DOMAIN r.command |-> QueryScrollView(r.command[i])],
                calls |-> <<Call("query.scroll_view.scroll_to_end", <<>>, <<r.command>>)>>]
      [] self.kind = "Logs" ->
            LET r == scroll_view_scroll_to_end(self.scroll_view, o)
            IN [self |-> [self EXCEPT !.scroll_view = r.scroll_view],
                task |-> [i \in DOMAIN r.command |-> LogScrollView(r.command[i])],
                calls |-> <<Call("log.scroll_view.scroll_to_end", <<>>, <<r.command>>)>>]

OutcomesOfScroll(self) ==
    IF self.kind \in {"Channel", "Server", "Query", "Logs"} THEN ScrollOutcomes ELSE {NoOutcome}

(***************************************************************************)
(* The state machine.  buffer is the Buffer the dashboard hosts; clients,  *)
(* history, file_transfers and config are the collaborators it lends to    *)
(* update and view; pending holds the messages in flight (scheduled by a   *)
(* returned task or published by a rendered element, not yet delivered to  *)
(* update), each with the kind of the buffer that scheduled it and whether *)
(* the buffer has been replaced since; ret is the call the dashboard is    *)
(* handling: the operation, the kind of the buffer it ran on, its          *)
(* arguments, what it returned and the delegations it made.  The UI loop   *)
(* is single-threaded: it takes the result of one call (Return, Interact)  *)
(* before it makes the next.  other is the scroll position that another    *)
(* Buffer instance holds: the one the hosted Buffer replaced at the last   *)
(* switch, as it was when the dashboard let go of it.                      *)
(***************************************************************************)
Kinds == {"Empty", "Channel", "Server", "Query", "FileTransfers", "Logs"}

Settings == {"settings"}
Themes == {"theme"}
Sidebars == {"sidebar"}

Ret(op, kind) ==
    [op |-> op, kind |-> kind, message |-> None, stale |-> FALSE, origin |-> None,
     args |-> <<>>, task |-> TaskNone, event |-> None, calls |-> <<>>, value |-> None]

InFlight(message, origin) == [message |-> message, origin |-> origin, stale |-> FALSE]

\* the executor takes the messages of a returned task
Schedule(inflight, task, origin) ==
    inflight \cup {InFlight(task[i], origin) : i \in DOMAIN task}

\* replacing the hosted buffer leaves the messages in flight where they are
MarkStale(inflight) == {[p EXCEPT !.stale = TRUE] : p \in inflight}

Idle == ret.op = "idle"

Init ==
    /\ buffer = empty
    /\ clients = "clients0"
    /\ history = "history0"
    /\ file_transfers = "transfers0"
    /\ config \in Configs
    /\ pending = {}
    /\ other = empty
    /\ ret = Ret("empty", "Empty")

\* the dashboard replaces the hosted buffer by Buffer::empty()
NewEmpty ==
    /\ Idle
    /\ buffer' = empty
    /\ pending' = MarkStale(pending)
    /\ ret' = Ret("empty", "Empty")
    /\ UNCHANGED <<other, clients, history, file_transfers, config>>

\* the dashboard replaces the hosted buffer by Buffer::from(d)
Convert ==
    /\ Idle
    /\ \E d \in Descriptors :
        /\ buffer' = From(d)
        /\ pending' = MarkStale(pending)
        /\ ret' = [Ret("from", From(d).kind) EXCEPT !.args = <<d>>]
    /\ UNCHANGED <<other, clients, history, file_transfers, config>>

\* the dashboard replaces the hosted buffer by Buffer::FileTransfers(..)
NewFileTransfers ==
    /\ Idle
    /\ buffer' = FileTransfersNew
    /\ pending' = MarkStale(pending)
    /\ ret' = Ret("file_transfers", "FileTransfers")
    /\ UNCHANGED <<other, clients, history, file_transfers, config>>

\* the dashboard replaces the hosted buffer by Buffer::Logs(..)
NewLogs ==
    /\ Idle
    /\ buffer' = LogsNew
    /\ pending' = MarkStale(pending)
    /\ ret' = Ret("logs", "Logs")
    /\ UNCHANGED <<other, clients, history, file_transfers, config>>

\* a message in flight is delivered to Buffer::update
Update ==
    /\ Idle
    /\ \E p \in pending :
        \E o \in OutcomesOfUpdate(buffer, p.message) :
            LET r == update(buffer, p.message, clients, history, file_transfers, config, o)
            IN /\ buffer' = r.self
               /\ clients' = r.clients
               /\ history' = r.history
               /\ file_transfers' = r.file_transfers
               /\ pending' = pending \ {p}
               /\ ret' = [Ret("update", buffer.kind) EXCEPT
                             !.message = Some(p.message), !.stale = p.stale,
                             !.origin = Some(p.origin), !.task = r.task,
                             !.event = r.event, !.calls = r.calls]
    /\ UNCHANGED <<other, config>>

Data ==
    /\ Idle
    /\ ret' = [Ret("data", buffer.kind) EXCEPT !.value = data(buffer)]
    /\ UNCHANGED <<other, buffer, clients, history, file_transfers, config, pending>>

GetServer ==
    /\ Idle
    /\ \E server \in Servers :
        ret' = [Ret("get_server", buffer.kind) EXCEPT
                   !.args = <<server>>, !.value = get_server(buffer, server)]
    /\ UNCHANGED <<other, buffer, clients, history, file_transfers, config, pending>>

GetChannel ==
    /\ Idle
    /\ \E server \in Servers, channel \in Channels :
        ret' = [Ret("get_channel", buffer.kind) EXCEPT
                   !.args = <<server, channel>>,
                   !.value = get_channel(buffer, server, channel)]
    /\ UNCHANGED <<other, buffer, clients, history, file_transfers, config, pending>>

View ==
    /\ Idle
    /\ \E settings \in Settings, theme \in Themes, is_focused \in BOOLEAN,
          sidebar \in Sidebars, o \in OutcomesOfView(buffer) :
        ret' = [Ret("view", buffer.kind) EXCEPT
                   !.value = Some(view(buffer, clients, file_transfers, history, settings,
                                       config, theme, is_focused, sidebar, o))]
    /\ UNCHANGED <<other, buffer, clients, history, file_transfers, config, pending>>

Focus ==
    /\ Idle
    /\ \E o \in OutcomesOfFocus(buffer) :
        LET r == focus(buffer, o)
        IN ret' = [Ret("focus", buffer.kind) EXCEPT !.task = r.task, !.calls = r.calls]
    /\ UNCHANGED <<other, buffer, clients, history, file_transfers, config, pending>>

Reset ==
    /\ Idle
    /\ LET r == reset(buffer)
       IN /\ buffer' = r.self
          /\ ret' = [Ret("reset", buffer.kind) EXCEPT !.calls = r.calls]
    /\ UNCHANGED <<other, clients, history, file_transfers, config, pending>>

InsertUserToInput ==
    /\ Idle
    /\ \E nick \in Nicks, o \in OutcomesOfInsert(buffer) :
        LET r == insert_user_to_input(buffer, nick, history, o)
        IN /\ buffer' = r.self
           /\ history' = r.history
           /\ ret' = [Ret("insert_user_to_input", buffer.kind) EXCEPT
                         !.args = <<nick>>, !.task = r.task, !.calls = r.calls]
    /\ UNCHANGED <<other, clients, file_transfers, config, pending>>

ScrollToStart ==
    /\ Idle
    /\ \E o \in OutcomesOfScroll(buffer) :
        LET r == scroll_to_start(buffer, o)
        IN /\ buffer' = r.self
           /\ ret' = [Ret("scroll_to_start", buffer.kind) EXCEPT
                         !.task = r.task, !.calls = r.calls]
    /\ UNCHANGED <<other, clients, history, file_transfers, config, pending>>

ScrollToEnd ==
    /\ Idle
    /\ \E o \in OutcomesOfScroll(buffer) :
        LET r == scroll_to_end(buffer, o)
        IN /\ buffer' = r.self
           /\ ret' = [Ret("scroll_to_end", buffer.kind) EXCEPT
                         !.task = r.task, !.calls = r.calls]
    /\ UNCHANGED <<other, clients, history, file_transfers, config, pending>>

\* the dashboard takes the result of the call: the executor takes the returned
\* task, whose messages come back later if it has room for them
Return ==
    /\ ~Idle
    /\ \/ /\ Cardinality(Schedule(pending, ret.task, ret.kind)) <= MaxPending
          /\ pending' = Schedule(pending, ret.task, ret.kind)
       \/ /\ Cardinality(Schedule(pending, ret.task, ret.kind)) > MaxPending
          /\ pending' = pending
    /\ ret' = Ret("idle", buffer.kind)
    /\ UNCHANGED <<other, buffer, clients, history, file_transfers, config>>

\* a widget of the element rendered last publishes one of its messages
Interact ==
    /\ ret.op = "view"
    /\ \E m \in ret.value[1].messages :
        /\ Cardinality(pending \cup {InFlight(m, ret.kind)}) <= MaxPending
        /\ pending' = pending \cup {InFlight(m, ret.kind)}
    /\ ret' = Ret("idle", buffer.kind)
    /\ UNCHANGED <<other, buffer, clients, history, file_transfers, config>>

\* the scroll position a Buffer holds: the scroll sub-state of its variant
ScrollPosition(self) ==
    IF self.kind \in {"Channel", "Server", "Query", "Logs"}
    THEN [kind |-> self.kind, scroll_view |-> self.scroll_view]
    ELSE [kind |-> self.kind]

\* the user switches which logical buffer is displayed: the dashboard replaces
\* the hosted Buffer wholesale by Buffer::from(d), and the Buffer it replaces
\* leaves with the scroll position it holds
SwitchBuffer ==
    /\ Idle
    /\ \E d \in Descriptors :
        /\ buffer' = From(d)
        /\ ret' = [Ret("switch", From(d).kind) EXCEPT !.args = <<d>>]
    /\ other' = ScrollPosition(buffer)
    /\ pending' = MarkStale(pending)
    /\ UNCHANGED <<clients, history, file_transfers, config>>

Next ==
    \/ NewEmpty
    \/ Convert
    \/ NewFileTransfers
    \/ NewLogs
    \/ Update
    \/ Data
    \/ GetServer
    \/ GetChannel
    \/ View
    \/ Focus
    \/ Reset
    \/ InsertUserToInput
    \/ ScrollToStart
    \/ ScrollToEnd
    \/ Return
    \/ Interact

Spec == Init /\ [][Next]_vars

\* every operation of the hosted Buffer, and the switch that keeps track of
\* the Buffer it replaces
NextPanes ==
    \/ Next
    \/ SwitchBuffer

SpecPanes == Init /\ [][NextPanes]_vars

(***************************************************************************)
(* Vocabulary of the properties.                                           *)
(***************************************************************************)
Conversational == {"Channel", "Server", "Query"}

\* the message kind that corresponds to a variant kind
Corresponds(kind, tag) ==
    \/ kind = "Channel" /\ tag = "Channel"
    \/ kind = "Server" /\ tag = "Server"
    \/ kind = "Query" /\ tag = "Query"
    \/ kind = "FileTransfers" /\ tag = "FileTransfers"
    \/ kind = "Logs" /\ tag = "Log"

\* the update of a variant kind
UpdateOf(kind) ==
    CASE kind = "Channel" -> "channel::update"
      [] kind = "Server" -> "server::update"
      [] kind = "Query" -> "query::update"
      [] kind = "FileTransfers" -> "file_transfers::update"
      [] kind = "Logs" -> "logs::update"

\* a task whose every message is m tagged tag, for the messages m of command
Tagged(command, tag) == [i \in DOMAIN command |-> [tag |-> tag, message |-> command[i]]]

\* a task of sub-component messages, wrapped as variant and tagged tag
TaggedAs(command, variant, tag) ==
    [i \in DOMAIN command |->
        [tag |-> tag, message |-> [variant |-> variant, message |-> command[i]]]]

\* the step is a call to Buffer::update
UpdateStep == ret'.op = "update"

\* the step left the buffer and the three mutable collaborators as they were
Untouched ==
    /\ buffer' = buffer
    /\ clients' = clients
    /\ history' = history
    /\ file_transfers' = file_transfers

(***************************************************************************)
(* C1: for every variant kind and every message whose kind does not        *)
(* correspond to it (for Empty: every message), update leaves the buffer,  *)
(* the client map, the history manager and the file-transfer manager       *)
(* unchanged and returns an empty task and no event.                       *)
(***************************************************************************)
C1_MismatchIsNoOp ==
    [][(UpdateStep /\ ~Corresponds(ret'.kind, ret'.message[1].tag))
          => (Untouched /\ ret'.task = TaskNone /\ ret'.event = None
              /\ ret'.calls = <<>>)]_vars

\* a Message::Server was delivered to a Channel buffer
C1_Witness ==
    /\ ret.op = "update"
    /\ ret.kind = "Channel"
    /\ ret.message[1].tag = "Server"

(***************************************************************************)
(* C2: for every variant kind that has a message kind and every message of *)
(* that kind, update delegates exactly once to the variant's own update    *)
(* and returns its task under the variant's tag, and its event.            *)
(***************************************************************************)
C2_MatchingDelegatesOnce ==
    (ret.op = "update" /\ Corresponds(ret.kind, ret.message[1].tag))
        => /\ Len(ret.calls) = 1
           /\ ret.calls[1].fn = UpdateOf(ret.kind)
           /\ ret.calls[1].args = <<ret.message[1].message>>
           /\ ret.task = Tagged(ret.calls[1].returned[1], ret.message[1].tag)

(***************************************************************************)
(* C3: after the hosted buffer has been replaced, every message scheduled  *)
(* by a previous buffer and delivered to update is dropped: nothing is     *)
(* mutated, no task is returned, no event fires.                           *)
(***************************************************************************)
C3_StaleIsDropped ==
    [][(UpdateStep /\ ret'.stale)
          => (Untouched /\ ret'.task = TaskNone /\ ret'.event = None
              /\ ret'.calls = <<>>)]_vars

\* C3, amended: a message scheduled by a previous buffer and delivered to
\* update on a buffer of another variant kind than the one that scheduled it is
\* dropped: nothing is mutated, no task is returned, no event fires.
C3_StaleOfOtherKindIsDropped ==
    [][(UpdateStep /\ ret'.stale /\ ret'.origin[1] # ret'.kind)
          => (Untouched /\ ret'.task = TaskNone /\ ret'.event = None
              /\ ret'.calls = <<>>)]_vars

\* a message scheduled by a Channel buffer was delivered after a switch to a
\* Query buffer
C3_Witness ==
    /\ ret.op = "update"
    /\ ret.stale
    /\ ret.origin = Some("Channel")
    /\ ret.kind = "Query"

(***************************************************************************)
(* C4: data() is Some exactly on Channel, Server and Query, None exactly   *)
(* on Empty, FileTransfers and Logs, and in the Some case it is the        *)
(* descriptor embedded in the active variant's state.                      *)
(***************************************************************************)
C4_DataSomeIffConversational ==
    ret.op = "data"
        => /\ ret.value # None <=> buffer.kind \in Conversational
           /\ ret.value = None <=> buffer.kind \in {"Empty", "FileTransfers", "Logs"}
           /\ ret.value # None => ret.value = Some(buffer.buffer)

\* data() was called on a Server buffer
C4_Witness ==
    /\ ret.op = "data"
    /\ ret.kind = "Server"
    /\ ret.value \in {Some(d) : d \in Descriptors}

(***************************************************************************)
(* C5: converting a descriptor d yields the variant of d's kind, never     *)
(* Empty, FileTransfers or Logs, and data() of the result equals d.        *)
(***************************************************************************)
C5_FromKeepsDescriptor ==
    ret.op = "from"
        => /\ buffer.kind = ret.args[1].kind
           /\ buffer.kind \in Conversational
           /\ data(buffer) = Some(ret.args[1])

\* Query(irc.example.org, alice) was converted
C5_Witness ==
    /\ ret.op = "from"
    /\ ret.args = <<DataQuery("irc.example.org", "alice")>>
    /\ buffer.kind = "Query"

(***************************************************************************)
(* C6: insert_user_to_input on a Channel or Query buffer delegates once to *)
(* that variant's input view with the given nick and the buffer's own      *)
(* descriptor (data() at call time) and returns the resulting task wrapped *)
(* as InputView under the variant's tag; on Empty, Server, FileTransfers   *)
(* and Logs it returns an empty task and mutates neither the buffer nor    *)
(* the history manager.                                                    *)
(***************************************************************************)
C6_InsertUserToInput ==
    [][ret'.op = "insert_user_to_input"
          => /\ ret'.kind = buffer.kind
             /\ buffer.kind = "Channel"
                   => /\ Len(ret'.calls) = 1
                      /\ ret'.calls[1].fn = "channel.input_view.insert_user"
                      /\ ret'.calls[1].args = <<ret'.args[1], data(buffer)[1], history>>
                      /\ ret'.task = TaggedAs(ret'.calls[1].returned[1], "InputView", "Channel")
             /\ buffer.kind = "Query"
                   => /\ Len(ret'.calls) = 1
                      /\ ret'.calls[1].fn = "query.input_view.insert_user"
                      /\ ret'.calls[1].args = <<ret'.args[1], data(buffer)[1], history>>
                      /\ ret'.task = TaggedAs(ret'.calls[1].returned[1], "InputView", "Query")
             /\ buffer.kind \in {"Empty", "Server", "FileTransfers", "Logs"}
                   => /\ ret'.task = TaskNone
                      /\ ret'.calls = <<>>
                      /\ buffer' = buffer
                      /\ history' = history]_vars

\* bob was inserted into the input of a Query buffer and a task came back
C6_Witness ==
    /\ ret.op = "insert_user_to_input"
    /\ ret.kind = "Query"
    /\ ret.args = <<"bob">>
    /\ ret.task # TaskNone

(***************************************************************************)
(* C7: scroll_to_start and scroll_to_end are no-ops (empty task, no state  *)
(* change) exactly on Empty and FileTransfers; on Channel, Server, Query   *)
(* and Logs each delegates to the variant's scroll sub-component and       *)
(* returns its task wrapped as ScrollView under the variant's tag (Log for *)
(* Logs).                                                                  *)
(***************************************************************************)
ScrollCall(kind, op) ==
    CASE kind = "Channel" -> "channel.scroll_view." \o op
      [] kind = "Server" -> "server.scroll_view." \o op
      [] kind = "Query" -> "query.scroll_view." \o op
      [] kind = "Logs" -> "log.scroll_view." \o op

ScrollTag(kind) == IF kind = "Logs" THEN "Log" ELSE kind

C7_Scroll ==
    [][ret'.op \in {"scroll_to_start", "scroll_to_end"}
          => /\ ret'.kind = buffer.kind
             /\ buffer.kind \in {"Empty", "FileTransfers"}
                   => /\ ret'.task = TaskNone
                      /\ ret'.calls = <<>>
                      /\ buffer' = buffer
             /\ buffer.kind \in {"Channel", "Server", "Query", "Logs"}
                   => /\ Len(ret'.calls) = 1
                      /\ ret'.calls[1].fn = ScrollCall(buffer.kind, ret'.op)
                      /\ ret'.task = TaggedAs(ret'.calls[1].returned[1], "ScrollView",
                                              ScrollTag(buffer.kind))]_vars

\* scroll_to_end on a Logs buffer returned a task
C7_Witness ==
    /\ ret.op = "scroll_to_end"
    /\ ret.kind = "Logs"
    /\ ret.task # TaskNone

(***************************************************************************)
(* C8: focus() returns an empty task on Empty, FileTransfers and Logs and, *)
(* on Channel, Server and Query, the variant's own focus task under the    *)
(* variant's tag; on every variant it leaves the buffer unchanged.         *)
(***************************************************************************)
FocusCall(kind) ==
    CASE kind = "Channel" -> "channel::focus"
      [] kind = "Server" -> "server::focus"
      [] kind = "Query" -> "query::focus"

C8_Focus ==
    [][ret'.op = "focus"
          => /\ ret'.kind = buffer.kind
             /\ buffer' = buffer
             /\ buffer.kind \in {"Empty", "FileTransfers", "Logs"}
                   => (ret'.task = TaskNone /\ ret'.calls = <<>>)
             /\ buffer.kind \in Conversational
                   => /\ Len(ret'.calls) = 1
                      /\ ret'.calls[1].fn = FocusCall(buffer.kind)
                      /\ ret'.task = Tagged(ret'.calls[1].returned[1], buffer.kind)]_vars

\* focus() on a Server buffer returned a task
C8_Witness ==
    /\ ret.op = "focus"
    /\ ret.kind = "Server"
    /\ ret.task # TaskNone

(***************************************************************************)
(* C9: no update on a FileTransfers, Logs or Empty buffer returns an       *)
(* event, whatever the message and the collaborators.                      *)
(***************************************************************************)
C9_NoEventFromUtilityVariants ==
    (ret.op = "update" /\ ret.kind \in {"FileTransfers", "Logs", "Empty"})
        => ret.event = None

\* a FileTransfers buffer handled a FileTransfers message
C9_Witness ==
    /\ ret.op = "update"
    /\ ret.kind = "FileTransfers"
    /\ ret.message[1].tag = "FileTransfers"
    /\ Len(ret.calls) = 1

(***************************************************************************)
(* C10: when a Channel, Server or Query update returns a variant-local     *)
(* event, update returns the unified Event of the same kind with the same  *)
(* payload; an absent local event gives an absent unified event; the       *)
(* translation is total and injective on each variant's local events.      *)
(***************************************************************************)
C10_EventTranslation ==
    /\ (ret.op = "update" /\ ret.kind \in Conversational /\ Len(ret.calls) = 1)
          => LET local == ret.calls[1].returned[2]
             IN /\ local = None <=> ret.event = None
                /\ local # None
                      => /\ ret.event[1].enum = "Event"
                         /\ ret.event[1].variant = local[1].variant
                         /\ ret.event[1].payload = local[1].payload
    /\ \A x, y \in LocalEvents("channel::Event") : ChannelEvent(x) = ChannelEvent(y) => x = y
    /\ \A x, y \in LocalEvents("server::Event") : ServerEvent(x) = ServerEvent(y) => x = y
    /\ \A x, y \in LocalEvents("query::Event") : QueryEvent(x) = QueryEvent(y) => x = y

\* a Server update returned server::Event::OpenChannel("#halloy")
C10_Witness ==
    /\ ret.op = "update"
    /\ ret.kind = "Server"
    /\ Len(ret.calls) = 1
    /\ ret.calls[1].returned[2] = Some(LocalEvent("server::Event", "OpenChannel", "#halloy"))

(***************************************************************************)
(* C11: the variant kind of a Buffer never changes in place: whatever      *)
(* update, focus, reset, insert_user_to_input, scroll_to_start,            *)
(* scroll_to_end, view, data, get_server and get_channel do, the buffer    *)
(* keeps the kind it was constructed with; another kind is only obtained   *)
(* by constructing a new Buffer.                                           *)
(***************************************************************************)
Constructors == {"empty", "from", "file_transfers", "logs"}

Methods ==
    {"update", "data", "get_server", "get_channel", "view", "focus", "reset",
     "insert_user_to_input", "scroll_to_start", "scroll_to_end"}

C11_KindNeverChangesInPlace ==
    [][/\ ret'.op \in Methods => (buffer'.kind = buffer.kind /\ ret'.kind = buffer.kind)
       /\ buffer'.kind # buffer.kind => ret'.op \in Constructors]_vars

\* reset() ran on a Query buffer
C11_Witness ==
    /\ ret.op = "reset"
    /\ ret.kind = "Query"
    /\ Len(ret.calls) = 1
    /\ buffer.kind = "Query"

(***************************************************************************)
(* C12: every operation of Buffer is total: on every variant, and for      *)
(* update on every (variant, message kind) pair, it can be called and      *)
(* returns a result of its return type, never a panic; scroll_to_end on an *)
(* Empty buffer returns an empty task.                                     *)
(***************************************************************************)
TaskOfMessages == {TaskNone} \cup {<<m>> : m \in Messages}

Events ==
    {EventUserContext(e) : e \in UserContextEvents}
    \cup {EventOpenChannel(c) : c \in Channels}
    \cup {EventHistory(t) : t \in HistoryTasks}

C12_Total ==
    /\ buffer.kind \in Kinds
    /\ ret.task \in TaskOfMessages
    /\ ret.event \in {None} \cup {Some(e) : e \in Events}
    /\ ret.op = "update" => ret.kind \in Kinds /\ ret.message[1] \in Messages
    /\ ret.op = "view" => ret.value[1].messages \subseteq Messages
    /\ ret.op = "data" => ret.value \in {None} \cup {Some(d) : d \in Descriptors}
    /\ (ret.op = "scroll_to_end" /\ ret.kind = "Empty") => ret.task = TaskNone
    /\ Idle => /\ ENABLED Data
               /\ ENABLED GetServer
               /\ ENABLED GetChannel
               /\ ENABLED View
               /\ ENABLED Focus
               /\ ENABLED Reset
               /\ ENABLED InsertUserToInput
               /\ ENABLED ScrollToStart
               /\ ENABLED ScrollToEnd
               /\ pending # {} => ENABLED Update

\* scroll_to_end ran on an Empty buffer
C12_Witness ==
    /\ ret.op = "scroll_to_end"
    /\ ret.kind = "Empty"
    /\ ret.task = TaskNone

(***************************************************************************)
(* C13: update mutates only the active variant and the collaborators       *)
(* handed to it: on Channel, Server and Query never the file-transfer      *)
(* manager; on FileTransfers never the client map or the history manager;  *)
(* never the config; on Empty and Logs no collaborator at all.             *)
(***************************************************************************)
C13_UpdateFrame ==
    [][UpdateStep
          => /\ config' = config
             /\ buffer.kind \in Conversational => file_transfers' = file_transfers
             /\ buffer.kind = "FileTransfers" => (clients' = clients /\ history' = history)
             /\ buffer.kind \in {"Empty", "Logs"}
                   => /\ clients' = clients
                      /\ history' = history
                      /\ file_transfers' = file_transfers]_vars

\* a FileTransfers update changed the file-transfer manager
C13_Witness ==
    /\ ret.op = "update"
    /\ ret.kind = "FileTransfers"
    /\ Len(ret.calls) = 1
    /\ file_transfers = "transfers1"

(***************************************************************************)
(* C14: every message Buffer causes to be scheduled on a buffer of variant *)
(* V carries V's tag, and, delivered while that buffer is still hosted,    *)
(* goes to V's own update and not to the catch-all arm; for all five       *)
(* message-bearing variants, Logs with Message::Log included.              *)
(***************************************************************************)
C14_OwnMessagesReachOwnUpdate ==
    /\ \A p \in pending : Corresponds(p.origin, p.message.tag)
    /\ (ret.op = "update" /\ ~ret.stale)
          => /\ Corresponds(ret.kind, ret.message[1].tag)
             /\ Len(ret.calls) = 1
             /\ ret.calls[1].fn = UpdateOf(ret.kind)

(***************************************************************************)
(* C15: reset() leaves the buffer unchanged on Empty, FileTransfers and    *)
(* Logs and delegates exactly once to the variant's reset on Channel,      *)
(* Server and Query; it preserves the variant kind and data().             *)
(***************************************************************************)
ResetCall(kind) ==
    CASE kind = "Channel" -> "channel::reset"
      [] kind = "Server" -> "server::reset"
      [] kind = "Query" -> "query::reset"

C15_Reset ==
    [][ret'.op = "reset"
          => /\ buffer'.kind = buffer.kind
             /\ data(buffer') = data(buffer)
             /\ buffer.kind \in {"Empty", "FileTransfers", "Logs"}
                   => (buffer' = buffer /\ ret'.calls = <<>>)
             /\ buffer.kind \in Conversational
                   => /\ Len(ret'.calls) = 1
                      /\ ret'.calls[1].fn = ResetCall(buffer.kind)]_vars

\* reset() ran on a Server buffer
C15_Witness ==
    /\ ret.op = "reset"
    /\ ret.kind = "Server"
    /\ Len(ret.calls) = 1
    /\ data(buffer) # None

(***************************************************************************)
(* C16: view is a pure read: it leaves the buffer, the client map, the     *)
(* file-transfer manager, the history manager and the config unchanged,    *)
(* and renders through the active variant's view function, handing it the  *)
(* arguments of that variant only (Empty: config and sidebar;              *)
(* FileTransfers: its own state and the file-transfer manager).            *)
(***************************************************************************)
ViewArgs(self, cl, ft, hi, settings, cfg, theme, is_focused, sidebar) ==
    CASE self.kind = "Empty" -> <<"empty::view", <<cfg, sidebar>>>>
      [] self.kind = "Channel" ->
            <<"channel::view", <<self, cl, hi, <<settings, "channel">>, cfg, theme, is_focused>>>>
      [] self.kind = "Server" -> <<"server::view", <<self, cl, hi, cfg, theme, is_focused>>>>
      [] self.kind = "Query" -> <<"query::view", <<self, cl, hi, cfg, theme, is_focused>>>>
      [] self.kind = "FileTransfers" -> <<"file_transfers::view", <<self, ft>>>>
      [] self.kind = "Logs" -> <<"logs::view", <<self, hi, cfg, theme>>>>

C16_ViewIsPure ==
    [][ret'.op = "view"
          => /\ Untouched
             /\ config' = config
             /\ pending' = pending
             /\ \E settings \in Settings, theme \in Themes, is_focused \in BOOLEAN,
                   sidebar \in Sidebars :
                   <<ret'.value[1].fn, ret'.value[1].args>>
                      = ViewArgs(buffer, clients, file_transfers, history, settings, config,
                                 theme, is_focused, sidebar)]_vars

\* a Channel buffer was rendered
C16_Witness ==
    /\ ret.op = "view"
    /\ ret.kind = "Channel"
    /\ ret.value[1].fn = "channel::view"
    /\ ret.value[1].messages # {}

(***************************************************************************)
(* C17: scroll state is independent per buffer: scroll_to_start and        *)
(* scroll_to_end change at most the scroll sub-state of the active variant *)
(* of the buffer they are called on (not its descriptor, not its input,    *)
(* no collaborator), and neither a scroll call nor replacing the hosted    *)
(* buffer changes the scroll position held by another Buffer.              *)
(***************************************************************************)
Scrollable == {"Channel", "Server", "Query", "Logs"}

\* b after the call differs from a at most in its scroll sub-state
SameButScroll(a, b) ==
    \/ b = a
    \/ /\ a.kind \in Scrollable
       /\ b.kind = a.kind
       /\ b = [a EXCEPT !.scroll_view = b.scroll_view]

C17_ScrollIsPerBuffer ==
    [][/\ ret'.op \in {"scroll_to_start", "scroll_to_end"}
             => /\ SameButScroll(buffer, buffer')
                /\ clients' = clients
                /\ history' = history
                /\ file_transfers' = file_transfers
                /\ other' = other
       /\ ret'.op \in Constructors => other' = other]_vars

\* a Channel buffer whose input and scroll state have both moved was scrolled,
\* while the Logs buffer it replaced had been scrolled before
C17_Witness ==
    /\ ret.op \in {"scroll_to_start", "scroll_to_end"}
    /\ ret.kind = "Channel"
    /\ buffer.kind = "Channel"
    /\ buffer.input_view = "changed"
    /\ buffer.scroll_view = "changed"
    /\ other.kind = "Logs"
    /\ other.scroll_view = "changed"

(***************************************************************************)
(* C18: get_server(s) returns the active state iff the buffer is a Server  *)
(* for s; get_channel(s, c) returns it iff the buffer is a Channel for s   *)
(* and c; otherwise both return None; neither mutates the buffer.          *)
(***************************************************************************)
C18_Lookups ==
    [][/\ ret'.op = "get_server"
             => /\ buffer' = buffer
                /\ ret'.value = IF buffer.kind = "Server" /\ buffer.server = ret'.args[1]
                                THEN Some(buffer) ELSE None
       /\ ret'.op = "get_channel"
             => /\ buffer' = buffer
                /\ ret'.value = IF /\ buffer.kind = "Channel"
                                   /\ buffer.server = ret'.args[1]
                                   /\ buffer.channel = ret'.args[2]
                                THEN Some(buffer) ELSE None]_vars

\* get_channel found nothing on a Channel buffer of the same server and
\* another channel
C18_Witness ==
    /\ ret.op = "get_channel"
    /\ buffer.kind = "Channel"
    /\ buffer.server = ret.args[1]
    /\ buffer.channel # ret.args[2]
    /\ ret.value = None

(***************************************************************************)
(* C19: in insert_user_to_input, whenever data() is Some the active        *)
(* variant is Channel, Server or Query, so the Empty, FileTransfers and    *)
(* Logs alternatives of the arm inside the Some branch are never taken;    *)
(* the only variant with a descriptor that takes the Task::none() arm is   *)
(* Server.                                                                 *)
(***************************************************************************)
C19_NoneArmWithDescriptorIsServer ==
    [][ret'.op = "insert_user_to_input"
          => /\ data(buffer) # None => buffer.kind \in Conversational
             /\ (data(buffer) # None /\ ret'.calls = <<>>)
                   => (buffer.kind = "Server" /\ ret'.task = TaskNone)
             /\ buffer.kind \in {"Empty", "FileTransfers", "Logs"} => data(buffer) = None]_vars

\* insert_user_to_input ran on a Server buffer
C19_Witness ==
    /\ ret.op = "insert_user_to_input"
    /\ ret.kind = "Server"
    /\ ret.task = TaskNone
    /\ ret.calls = <<>>

====
